---- MODULE Spec2Model ----
(***************************************************************************)
(* Model of the Futu OpenAPI wrappers: FutuClient (session provider),      *)
(* TradingManager (trading facade) and MarketData (market data facade).    *)
(* The daemon (FutuOpenD) is the environment: every call into it answers   *)
(* with a nondeterministic (ret, data) pair.                               *)
(***************************************************************************)
EXTENDS Integers, Sequences, FiniteSets, TLC

\* ---------------------------------------------------------------- bounds
MaxHandles == 2     \* contexts opened over the life of one FutuClient
MaxRows == 2        \* rows of a DataFrame answered by the daemon

\* ------------------------------------------------------------- constants
None == "None"
NoCtx == 0                      \* a context attribute that is None
RET_OK == 0
\* the codes the daemon answers: RET_OK, or an error code
RetCodes == {RET_OK, -1}
TRADING_ACCOUNT_ID == None
Markets == {"HK", "US"}
TrdEnvs == {"SIMULATE", "REAL"}
Managers == {"tm1", "tm2"}
AccIds == {None, "A1"}
OrderIds == {"o1", "o2"}
Codes == {"HK.00700", "US.AAPL"}

VARIABLES
    trading_env,       \* FutuClient.trading_env
    UNLOCK_PASSWORD,   \* config.settings.UNLOCK_PASSWORD is set (truthy)
    contexts,          \* every context opened so far, by identity 1..Len
    quote_ctx,         \* FutuClient._quote_ctx (NoCtx or an identity)
    trade_ctx,         \* FutuClient._trade_ctx (NoCtx or an identity)
    managers,          \* TradingManager instances sharing the client
    md_quote_ctx,      \* MarketData._quote_ctx
    scope,             \* position of the caller w.r.t. "with client:"
    last               \* the last operation: requests forwarded, outcome

vars == <<trading_env, UNLOCK_PASSWORD, contexts, quote_ctx, trade_ctx,
          managers, md_quote_ctx, scope, last>>

\* ------------------------------------------------------------- outcomes
\* An outcome is a normal return or a raised exception. Every kind of
\* returned value has a field of its own, so that a field has one type.
RetNone == [kind |-> "return", none |-> TRUE]
RetCtx(h) == [kind |-> "return", ctx |-> h]
RetRecords(rs) == [kind |-> "return", records |-> rs]
RetRecord(r) == [kind |-> "return", record |-> r]
RetResult(r) == [kind |-> "return", result |-> r]
RetResults(rs) == [kind |-> "return", results |-> rs]
Raise(m) == [kind |-> "raise", msg |-> m]
Raised(o) == o.kind = "raise"
Returned(o) == o.kind = "return"

SeqsUpTo(S, n) == UNION {[1..k -> S] : k \in 0..n}

\* --------------------------------------------------- contexts (handles)
OpenQuoteContext == [kind |-> "quote", market |-> None, env |-> None,
                     unlocked |-> FALSE, closes |-> 0]

OpenSecTradeContext(market, trd_env) ==
    [kind |-> "trade", market |-> market, env |-> trd_env,
     unlocked |-> FALSE, closes |-> 0]

\* ctx.close() on the context with identity h
ctx_close(ctxs, h) ==
    [ctxs EXCEPT ![h].closes = @ + 1]

\* the caller's position after an operation with outcome o: inside a
\* "with" block a raised exception leaves the body, elsewhere it is the
\* caller's to handle
AfterCall(o) ==
    IF scope.pc = "inside"
    THEN [pc |-> "inside", exc |-> IF Raised(o) THEN "inflight" ELSE "none"]
    ELSE [pc |-> "outside", exc |-> "none"]

\* the caller makes one call at a time: the next one starts when it has
\* taken the outcome of the last, and none while an exception is in flight
CanCall == scope.exc # "inflight" /\ last.op = "idle"

\* ----------------------------------------------------------- FutuClient
\* get_quote_ctx without the "is None" test: a context is opened every time
FutuClient_get_quote_ctx_eff_always_opens(connected) ==
    IF ~connected
    THEN [contexts |-> contexts, quote_ctx |-> quote_ctx,
          out |-> Raise("connect")]
    ELSE [contexts |-> Append(contexts, OpenQuoteContext),
          quote_ctx |-> Len(contexts) + 1,
          out |-> RetCtx(Len(contexts) + 1)]

\* get_quote_ctx: the state after the call and its outcome
FutuClient_get_quote_ctx_eff(connected) ==
    IF quote_ctx # NoCtx
    THEN [contexts |-> contexts, quote_ctx |-> quote_ctx,
          out |-> RetCtx(quote_ctx)]
    ELSE IF ~connected
    THEN [contexts |-> contexts, quote_ctx |-> NoCtx,
          out |-> Raise("connect")]
    ELSE [contexts |-> Append(contexts, OpenQuoteContext),
          quote_ctx |-> Len(contexts) + 1,
          out |-> RetCtx(Len(contexts) + 1)]

\* get_trade_ctx: the state after the call and its outcome
FutuClient_get_trade_ctx_eff(market, connected, unlock_ret) ==
    IF trade_ctx # NoCtx
    THEN [contexts |-> contexts, trade_ctx |-> trade_ctx,
          out |-> RetCtx(trade_ctx)]
    ELSE IF ~connected
    THEN [contexts |-> contexts, trade_ctx |-> NoCtx,
          out |-> Raise("connect")]
    ELSE LET trd_env == IF trading_env = "SIMULATE" THEN "SIMULATE" ELSE "REAL"
             h == Len(contexts) + 1
             opened == Append(contexts, OpenSecTradeContext(market, trd_env))
         IN  IF UNLOCK_PASSWORD /\ trading_env = "REAL"
             THEN IF unlock_ret # 0
                  THEN [contexts |-> opened, trade_ctx |-> h,
                        out |-> Raise("Failed to unlock trading")]
                  ELSE [contexts |-> [opened EXCEPT ![h].unlocked = TRUE],
                        trade_ctx |-> h, out |-> RetCtx(h)]
             ELSE [contexts |-> opened, trade_ctx |-> h, out |-> RetCtx(h)]

\* close() that forgets to reset _trade_ctx to None
FutuClient_close_eff_keeps_trade ==
    LET q == IF quote_ctx # NoCtx THEN <<quote_ctx>> ELSE <<>>
        t == IF trade_ctx # NoCtx THEN <<trade_ctx>> ELSE <<>>
        c1 == IF quote_ctx # NoCtx THEN ctx_close(contexts, quote_ctx)
              ELSE contexts
        c2 == IF trade_ctx # NoCtx THEN ctx_close(c1, trade_ctx) ELSE c1
    IN  [contexts |-> c2, quote_ctx |-> NoCtx, trade_ctx |-> trade_ctx,
         closed |-> q \o t]

\* close: the state after the call and the close() calls it issued
FutuClient_close_eff ==
    LET q == IF quote_ctx # NoCtx THEN <<quote_ctx>> ELSE <<>>
        t == IF trade_ctx # NoCtx THEN <<trade_ctx>> ELSE <<>>
        c1 == IF quote_ctx # NoCtx THEN ctx_close(contexts, quote_ctx)
              ELSE contexts
        c2 == IF trade_ctx # NoCtx THEN ctx_close(c1, trade_ctx) ELSE c1
    IN  [contexts |-> c2, quote_ctx |-> NoCtx, trade_ctx |-> NoCtx,
         closed |-> q \o t]

\* an __exit__ that returns True
FutuClient_exit_returns_true == TRUE

\* what __exit__ returns: None, so an exception in flight is not suppressed
FutuClient_exit_returns == FALSE

\* the record of an operation: its name, the object it was called on, its
\* arguments, the requests it forwarded to the daemon, the daemon's answers and
\* its outcome
Op(name, who, args, calls, resps, out) ==
    [op |-> name, who |-> who, args |-> args, calls |-> calls,
     resps |-> resps, out |-> out]

Call(fn, ctx, kwargs) == [fn |-> fn, ctx |-> ctx, kwargs |-> kwargs]

NoArgs == [none |-> TRUE]

\* no call in progress
Idle == Op("idle", "caller", NoArgs, <<>>, <<>>, RetNone)

\* the caller takes the outcome of the call and goes on to its next statement
Caller_continue ==
    /\ last.op # "idle"
    /\ scope.exc # "inflight"
    /\ last' = Idle
    /\ UNCHANGED <<trading_env, UNLOCK_PASSWORD, contexts, quote_ctx,
                   trade_ctx, managers, md_quote_ctx, scope>>

FutuClient_get_quote_ctx(connected) ==
    /\ CanCall
    /\ quote_ctx # NoCtx \/ Len(contexts) < MaxHandles
    /\ LET e == FutuClient_get_quote_ctx_eff(connected)
       IN  /\ contexts' = e.contexts
           /\ quote_ctx' = e.quote_ctx
           /\ last' = Op("get_quote_ctx", "client", NoArgs, <<>>, <<>>, e.out)
           /\ scope' = AfterCall(e.out)
    /\ UNCHANGED <<trading_env, UNLOCK_PASSWORD, trade_ctx, managers,
                   md_quote_ctx>>

FutuClient_get_trade_ctx(market, connected, unlock_ret) ==
    /\ CanCall
    /\ trade_ctx # NoCtx \/ Len(contexts) < MaxHandles
    /\ LET e == FutuClient_get_trade_ctx_eff(market, connected, unlock_ret)
       IN  /\ contexts' = e.contexts
           /\ trade_ctx' = e.trade_ctx
           /\ last' = Op("get_trade_ctx", "client", [market |-> market],
                         <<>>, <<>>, e.out)
           /\ scope' = AfterCall(e.out)
    /\ UNCHANGED <<trading_env, UNLOCK_PASSWORD, quote_ctx, managers,
                   md_quote_ctx>>

FutuClient_close ==
    /\ CanCall
    /\ LET e == FutuClient_close_eff
       IN  /\ contexts' = e.contexts
           /\ quote_ctx' = e.quote_ctx
           /\ trade_ctx' = e.trade_ctx
           /\ last' = Op("close", "client", NoArgs,
                         [i \in 1..Len(e.closed) |->
                             Call("close", e.closed[i], NoArgs)],
                         <<>>, RetNone)
    /\ scope' = AfterCall(RetNone)
    /\ UNCHANGED <<trading_env, UNLOCK_PASSWORD, managers, md_quote_ctx>>

\* "with client:" is entered
FutuClient_enter ==
    /\ CanCall
    /\ scope.pc # "inside"
    /\ scope' = [pc |-> "inside", exc |-> "none"]
    /\ last' = Op("__enter__", "client", NoArgs, <<>>, <<>>, RetNone)
    /\ UNCHANGED <<trading_env, UNLOCK_PASSWORD, contexts, quote_ctx,
                   trade_ctx, managers, md_quote_ctx>>

\* the "with" block is left, normally or by an exception in flight:
\* __exit__ runs close() and its return value decides about the exception
FutuClient_exit ==
    /\ scope.pc = "inside"
    /\ scope.exc = "inflight" \/ last.op = "idle"
    /\ LET e == FutuClient_close_eff
       IN  /\ contexts' = e.contexts
           /\ quote_ctx' = e.quote_ctx
           /\ trade_ctx' = e.trade_ctx
    /\ scope' = [pc |-> "left",
                 exc |-> IF scope.exc = "inflight"
                         THEN IF FutuClient_exit_returns THEN "suppressed"
                              ELSE "propagated"
                         ELSE "none"]
    /\ last' = Op("__exit__", "client", NoArgs, <<>>, <<>>, RetNone)
    /\ UNCHANGED <<trading_env, UNLOCK_PASSWORD, managers, md_quote_ctx>>

\* ------------------------------------------------------------ DataFrame
\* A DataFrame is column-oriented: a record of columns, each a sequence
\* with one value per row.
df_len(df) == IF DOMAIN df = {} THEN 0 ELSE Len(df[CHOOSE c \in DOMAIN df : TRUE])
df_empty(df) == DOMAIN df = {} \/ df_len(df) = 0
\* data.iloc[i]: row i as a mapping from column to value
df_iloc(df, i) == [c \in DOMAIN df |-> df[c][i]]
\* a conversion that loses the last row
to_dict_records_drops_row(df) == [i \in 1..(df_len(df) - 1) |-> df_iloc(df, i)]

\* data.to_dict("records"): one mapping per row, in row order
to_dict_records(df) == [i \in 1..df_len(df) |-> df_iloc(df, i)]
\* data.to_dict("records") if not data.empty else []
records_or_empty(df) == IF ~df_empty(df) THEN to_dict_records(df) ELSE <<>>

RECURSIVE SelectRows(_, _, _, _)
\* the values of column seq whose row in column key equals val, in row order
SelectRows(seq, key, val, i) ==
    IF i > Len(seq) THEN <<>>
    ELSE (IF key[i] = val THEN <<seq[i]>> ELSE <<>>)
         \o SelectRows(seq, key, val, i + 1)

\* df[df[col] == val]
df_filter(df, col, val) ==
    [c \in DOMAIN df |-> SelectRows(df[c], df[col], val, 1)]

\* what the daemon answers: (ret, data); data is a DataFrame on RET_OK and
\* an error string otherwise
Ok(df) == [ret |-> RET_OK, data |-> df]
Err == [ret |-> -1, msg |-> "daemon error"]

OrderFrames ==
    {[order_id |-> ids, code |-> [i \in 1..Len(ids) |-> "HK.00700"]] :
        ids \in SeqsUpTo(OrderIds, MaxRows)}
PositionFrames ==
    {[code |-> cs, qty |-> [i \in 1..Len(cs) |-> 100]] :
        cs \in SeqsUpTo(Codes, MaxRows)}
AccountFrames ==
    {[trd_env |-> es, acc_id |-> [i \in 1..Len(es) |-> i]] :
        es \in SeqsUpTo(TrdEnvs, MaxRows)}
QtyFrames ==
    {[max_cash_buy |-> qs, max_sell |-> [i \in 1..Len(qs) |-> 0]] :
        qs \in SeqsUpTo({100, 200}, MaxRows)}
\* modify_order answers the order it modified, or nothing
ModifyFrames(order_id) ==
    {[order_id |-> ids, trd_env |-> [i \in 1..Len(ids) |-> "SIMULATE"]] :
        ids \in {<<>>, <<order_id>>}}

Responses(frames) == {Err} \cup {Ok(df) : df \in frames}

\* ------------------------------------------------------- TradingManager
TradingManager_init(market, acc_id, trd_env) ==
    [market |-> market,
     acc_id |-> IF acc_id # None THEN acc_id ELSE TRADING_ACCOUNT_ID,
     trd_env |-> trd_env,
     trade_ctx |-> NoCtx]

\* _get_trade_ctx: the cached context, or the client's, cached on return
TradingManager_get_trade_ctx_eff(f, connected, unlock_ret) ==
    IF managers[f].trade_ctx # NoCtx
    THEN [contexts |-> contexts, trade_ctx |-> trade_ctx,
          cache |-> managers[f].trade_ctx,
          out |-> RetCtx(managers[f].trade_ctx)]
    ELSE LET e == FutuClient_get_trade_ctx_eff(managers[f].market, connected,
                                               unlock_ret)
         IN  [contexts |-> e.contexts, trade_ctx |-> e.trade_ctx,
              cache |-> IF Raised(e.out) THEN NoCtx ELSE e.out.ctx,
              out |-> e.out]

\* kwargs with acc_id added when the manager has one
with_acc_id(f, kwargs) ==
    IF managers[f].acc_id # None
    THEN [k \in DOMAIN kwargs \cup {"acc_id"} |->
             IF k = "acc_id" THEN managers[f].acc_id ELSE kwargs[k]]
    ELSE kwargs

\* a request that substitutes a default for a price of 0
place_order_kwargs_default_price(f, code, price, quantity, side, order_type) ==
    with_acc_id(f, [price |-> IF price = 0 THEN 380 ELSE price,
                    qty |-> quantity, code |-> code,
                    trd_side |-> side, order_type |-> order_type,
                    trd_env |-> managers[f].trd_env])

place_order_kwargs(f, code, price, quantity, side, order_type) ==
    with_acc_id(f, [price |-> price, qty |-> quantity, code |-> code,
                    trd_side |-> side, order_type |-> order_type,
                    trd_env |-> managers[f].trd_env])

place_order_result(resp) ==
    IF resp.ret # 0 THEN Raise("Failed to place order")
    ELSE RetResult([order_id |-> IF df_len(resp.data) > 0
                                 THEN df_iloc(resp.data, 1).order_id
                                 ELSE None,
                    status |-> "placed",
                    data |-> records_or_empty(resp.data)])

get_positions_kwargs(f, code) ==
    with_acc_id(f, [code |-> code, trd_env |-> managers[f].trd_env])

get_positions_result(resp) ==
    IF resp.ret # 0 THEN Raise("Failed to get positions")
    ELSE RetRecords(records_or_empty(resp.data))

\* get_position that answers positions[-1]
get_position_result_last(positions) ==
    IF Raised(positions) THEN positions
    ELSE IF Len(positions.records) > 0
    THEN RetRecord(positions.records[Len(positions.records)])
    ELSE RetNone

\* positions[0] if positions else None, or the failure of get_positions
get_position_result(positions) ==
    IF Raised(positions) THEN positions
    ELSE IF Len(positions.records) > 0 THEN RetRecord(positions.records[1])
    ELSE RetNone

get_today_orders_kwargs(f, status) ==
    with_acc_id(f, [status_filter_list |-> status,
                    trd_env |-> managers[f].trd_env])

get_today_orders_result(resp) ==
    IF resp.ret # 0 THEN Raise("Failed to get orders")
    ELSE RetRecords(records_or_empty(resp.data))

\* the status argument: None, or a list of order statuses
StatusNone == [none |-> TRUE]
StatusList(l) == [list |-> l]
FilledStatus == StatusList(<<"FILLED_ALL", "FILLED_PART">>)
PendingStatus == StatusList(<<"SUBMITTED", "WAITING_SUBMIT">>)

cancel_order_kwargs(f, order_id) ==
    with_acc_id(f, [modify_order_op |-> 0, order_id |-> order_id,
                    trd_env |-> managers[f].trd_env])

cancel_order_result(order_id, resp) ==
    IF resp.ret # 0 THEN Raise("Failed to cancel order")
    ELSE RetResult([order_id |-> order_id, status |-> "cancelled",
                    data |-> records_or_empty(resp.data)])

\* order.get("order_id")
order_get_id(order) ==
    IF "order_id" \in DOMAIN order THEN order.order_id ELSE None

\* one turn of the loop of cancel_all_orders: the entry appended to results
cancel_all_entry(order, resp) ==
    LET r == IF "order_id" \in DOMAIN order
             THEN cancel_order_result(order.order_id, resp)
             ELSE Raise("KeyError")
    IN  IF Raised(r)
        THEN [order_id |-> order_get_id(order), status |-> "error",
              error |-> r.msg]
        ELSE r.result

RECURSIVE cancel_all_loop_aborts(_, _, _)
\* the loop without its try/except: it ends at the first failed cancellation
cancel_all_loop_aborts(pending, resps, i) ==
    IF i > Len(pending) THEN <<>>
    ELSE IF resps[i].ret # 0 THEN <<>>
    ELSE <<cancel_all_entry(pending[i], resps[i])>>
         \o cancel_all_loop_aborts(pending, resps, i + 1)

RECURSIVE cancel_all_loop(_, _, _)
\* the loop of cancel_all_orders from the i-th pending order on
cancel_all_loop(pending, resps, i) ==
    IF i > Len(pending) THEN <<>>
    ELSE <<cancel_all_entry(pending[i], resps[i])>>
         \o cancel_all_loop(pending, resps, i + 1)

RECURSIVE cancel_all_calls(_, _, _, _)
\* the modify_order requests the loop forwards from the i-th order on
cancel_all_calls(f, ctx, pending, i) ==
    IF i > Len(pending) THEN <<>>
    ELSE (IF "order_id" \in DOMAIN pending[i]
          THEN <<Call("modify_order", ctx,
                      cancel_order_kwargs(f, pending[i].order_id))>>
          ELSE <<>>)
         \o cancel_all_calls(f, ctx, pending, i + 1)

get_account_info_result(account_type, resp) ==
    IF resp.ret = RET_OK
    THEN LET accounts == df_filter(resp.data, "trd_env",
                                   IF account_type = "SIMULATE"
                                   THEN "SIMULATE" ELSE "REAL")
         IN  IF ~df_empty(accounts) THEN RetRecord(df_iloc(accounts, 1))
             ELSE RetNone
    ELSE Raise("Failed to get account list")

get_max_trd_qtys_kwargs(f, code, price) ==
    with_acc_id(f, [code |-> code, price |-> price,
                    trd_env |-> managers[f].trd_env])

get_max_trd_qtys_result(resp) ==
    IF resp.ret # 0 THEN Raise("Failed to get max trade qtys")
    ELSE RetRecord(IF ~df_empty(resp.data)
                   THEN to_dict_records(resp.data)[1] ELSE <<>>)

\* a manager may run an operation: no exception is in flight, and a context
\* it would have to open is within the bound
TMReady(f) ==
    /\ CanCall
    /\ \/ managers[f].trade_ctx # NoCtx
       \/ trade_ctx # NoCtx
       \/ Len(contexts) < MaxHandles

\* the state after an operation of manager f that acquired its context as c
TMDone(f, c, op) ==
    /\ contexts' = c.contexts
    /\ trade_ctx' = c.trade_ctx
    /\ managers' = [managers EXCEPT ![f].trade_ctx = c.cache]
    /\ last' = op
    /\ scope' = AfterCall(op.out)
    /\ UNCHANGED <<trading_env, UNLOCK_PASSWORD, quote_ctx, md_quote_ctx>>

\* an operation of manager f that acquires the context and forwards one
\* request, answered by resp; out is its outcome given the answer
TMForward(f, name, args, fn, kwargs, connected, unlock_ret, resp, out) ==
    /\ TMReady(f)
    /\ LET c == TradingManager_get_trade_ctx_eff(f, connected, unlock_ret)
       IN  IF Raised(c.out)
           THEN TMDone(f, c, Op(name, f, args, <<>>, <<>>, c.out))
           ELSE TMDone(f, c, Op(name, f, args, <<Call(fn, c.cache, kwargs)>>,
                                <<resp>>, out))

\* the public get_trade_ctx()
TradingManager_get_trade_ctx(f, connected, unlock_ret) ==
    /\ TMReady(f)
    /\ LET c == TradingManager_get_trade_ctx_eff(f, connected, unlock_ret)
       IN  TMDone(f, c, Op("tm_get_trade_ctx", f, NoArgs, <<>>, <<>>, c.out))

TradingManager_place_order(f, code, price, quantity, side, order_type, connected, unlock_ret, resp) ==
    TMForward(f, "place_order",
              [code |-> code, price |-> price, quantity |-> quantity,
               side |-> side, order_type |-> order_type],
              "place_order",
              place_order_kwargs(f, code, price, quantity, side, order_type),
              connected, unlock_ret, resp, place_order_result(resp))

TradingManager_get_positions(f, code, connected, unlock_ret, resp) ==
    TMForward(f, "get_positions", [code |-> code],
              "position_list_query", get_positions_kwargs(f, code),
              connected, unlock_ret, resp, get_positions_result(resp))

TradingManager_get_position(f, code, connected, unlock_ret, resp) ==
    TMForward(f, "get_position", [code |-> code],
              "position_list_query", get_positions_kwargs(f, code),
              connected, unlock_ret, resp,
              get_position_result(get_positions_result(resp)))

\* get_today_orders, and get_filled_orders and get_pending_orders, which
\* call it with their status lists
TradingManager_get_today_orders(f, status, connected, unlock_ret, resp) ==
    TMForward(f, "get_today_orders", [status |-> status],
              "order_list_query", get_today_orders_kwargs(f, status),
              connected, unlock_ret, resp, get_today_orders_result(resp))

TradingManager_get_filled_orders(f, connected, unlock_ret, resp) ==
    TMForward(f, "get_filled_orders", NoArgs,
              "order_list_query", get_today_orders_kwargs(f, FilledStatus),
              connected, unlock_ret, resp, get_today_orders_result(resp))

TradingManager_get_pending_orders(f, connected, unlock_ret, resp) ==
    TMForward(f, "get_pending_orders", NoArgs,
              "order_list_query", get_today_orders_kwargs(f, PendingStatus),
              connected, unlock_ret, resp, get_today_orders_result(resp))

TradingManager_cancel_order(f, order_id, connected, unlock_ret, resp) ==
    TMForward(f, "cancel_order", [order_id |-> order_id],
              "modify_order", cancel_order_kwargs(f, order_id),
              connected, unlock_ret, resp, cancel_order_result(order_id, resp))

\* cancel_all_orders: resp answers the pending-order query, resps[i] the
\* cancellation of the i-th pending order
TradingManager_cancel_all_orders(f, connected, unlock_ret, resp, resps) ==
    /\ TMReady(f)
    /\ LET c == TradingManager_get_trade_ctx_eff(f, connected, unlock_ret)
           query == Call("order_list_query", c.cache,
                         get_today_orders_kwargs(f, PendingStatus))
           pending == get_today_orders_result(resp)
       IN  IF Raised(c.out)
           THEN /\ resps = <<>>
                /\ TMDone(f, c, Op("cancel_all_orders", f, NoArgs, <<>>, <<>>,
                                   c.out))
           ELSE IF Raised(pending)
           THEN /\ resps = <<>>
                /\ TMDone(f, c, Op("cancel_all_orders", f, NoArgs, <<query>>,
                                   <<resp>>, pending))
           ELSE /\ Len(resps) = Len(pending.records)
                /\ \A i \in 1..Len(resps) :
                      resps[i] \in Responses(ModifyFrames(
                                       order_get_id(pending.records[i])))
                /\ TMDone(f, c,
                     Op("cancel_all_orders", f, NoArgs,
                        <<query>> \o cancel_all_calls(f, c.cache,
                                                      pending.records, 1),
                        <<resp>> \o resps,
                        RetResults(cancel_all_loop(pending.records, resps, 1))))

TradingManager_get_account_info(f, account_type, connected, unlock_ret, resp) ==
    TMForward(f, "get_account_info", [account_type |-> account_type],
              "get_acc_list", NoArgs,
              connected, unlock_ret, resp,
              get_account_info_result(account_type, resp))

TradingManager_get_max_trd_qtys(f, code, price, connected, unlock_ret, resp) ==
    TMForward(f, "get_max_trd_qtys", [code |-> code, price |-> price],
              "get_max_trd_qtys", get_max_trd_qtys_kwargs(f, code, price),
              connected, unlock_ret, resp, get_max_trd_qtys_result(resp))

\* ----------------------------------------------------------- MarketData
\* _get_quote_ctx: the cached context, or the client's, cached on return
MarketData_get_quote_ctx_eff(connected) ==
    IF md_quote_ctx # NoCtx
    THEN [contexts |-> contexts, quote_ctx |-> quote_ctx,
          cache |-> md_quote_ctx, out |-> RetCtx(md_quote_ctx)]
    ELSE LET e == FutuClient_get_quote_ctx_eff(connected)
         IN  [contexts |-> e.contexts, quote_ctx |-> e.quote_ctx,
              cache |-> IF Raised(e.out) THEN NoCtx ELSE e.out.ctx,
              out |-> e.out]

\* a codes argument is one code (a str) or a list of codes
CodeStr(s) == [str |-> s]
CodeList(l) == [list |-> l]
\* a bare code that is not promoted: the request carries no list of one code
codes_list_unpromoted(codes) ==
    IF "str" \in DOMAIN codes THEN <<>> ELSE codes.list

\* if isinstance(codes, str): codes = [codes]
codes_list(codes) == IF "str" \in DOMAIN codes THEN <<codes.str>> ELSE codes.list

\* a sub_types argument is None or a list of subscription types
SubNone == [none |-> TRUE]
SubList(l) == [list |-> l]
\* if sub_types is None: sub_types = [SubType.QUOTE]
sub_types_list(sub_types) ==
    IF "none" \in DOMAIN sub_types THEN <<"QUOTE">> ELSE sub_types.list

period_map ==
    [p \in {"MIN_1", "MIN_5", "MIN_15", "MIN_30", "MIN_60", "DAY", "WEEK",
            "MONTH", "YEAR"} |->
        CASE p = "MIN_1" -> "K_1M"
          [] p = "MIN_5" -> "K_5M"
          [] p = "MIN_15" -> "K_15M"
          [] p = "MIN_30" -> "K_30M"
          [] p = "MIN_60" -> "K_60M"
          [] p = "DAY" -> "K_DAY"
          [] p = "WEEK" -> "K_WEEK"
          [] p = "MONTH" -> "K_MON"
          [] p = "YEAR" -> "K_YEAR"]

\* a lookup whose default is the first entry of the map
kl_type_default_1m(period) ==
    IF period \in DOMAIN period_map THEN period_map[period] ELSE "K_1M"

\* period_map.get(period, KLType.K_DAY)
kl_type(period) ==
    IF period \in DOMAIN period_map THEN period_map[period] ELSE "K_DAY"

\* the requests forwarded to the quote context
subscribe_kwargs(codes, sub_types) ==
    [codes |-> codes_list(codes), sub_types |-> sub_types_list(sub_types)]

get_quote_kwargs(codes) == [codes |-> codes_list(codes)]

get_cur_klines_kwargs(codes, period, num) ==
    [codes |-> codes_list(codes), num |-> num, ktype |-> kl_type(period)]

get_klines_kwargs(code, period, count, start, end) ==
    [code |-> code, ktype |-> kl_type(period), autype |-> None,
     start |-> start, end |-> end, max_count |-> count]

subscribe_result(codes, resp) ==
    IF resp.ret # 0 THEN Raise("Failed to subscribe")
    ELSE RetResult([status |-> "subscribed", codes |-> codes_list(codes)])

unsubscribe_result(codes, resp) ==
    IF resp.ret # 0 THEN Raise("Failed to unsubscribe")
    ELSE RetResult([status |-> "unsubscribed", codes |-> codes_list(codes)])

\* get_quote that answers [] when the daemon reports a failure
get_quote_result_swallows(resp) ==
    IF resp.ret # 0 THEN RetRecords(<<>>)
    ELSE RetRecords(records_or_empty(resp.data))

get_quote_result(resp) ==
    IF resp.ret # 0 THEN Raise("Failed to get quote")
    ELSE RetRecords(records_or_empty(resp.data))

get_klines_result(resp) ==
    IF resp.ret # 0 THEN Raise("Failed to get K-lines")
    ELSE RetRecords(records_or_empty(resp.data))

get_cur_klines_result(resp) ==
    IF resp.ret # 0 THEN Raise("Failed to get current K-lines")
    ELSE RetRecords(records_or_empty(resp.data))

get_subscription_result(resp) ==
    IF resp.ret # 0 THEN Raise("Failed to get subscription")
    ELSE RetRecords(records_or_empty(resp.data))

get_market_snapshot_result(resp) ==
    IF resp.ret # 0 THEN Raise("Failed to get market snapshot")
    ELSE RetRecords(records_or_empty(resp.data))

get_stock_basicinfo_result(resp) ==
    IF resp.ret # 0 THEN Raise("Failed to get stock basic info")
    ELSE RetRecords(records_or_empty(resp.data))

QuoteFrames ==
    {[code |-> cs, last_price |-> [i \in 1..Len(cs) |-> 380]] :
        cs \in SeqsUpTo(Codes, MaxRows)}
KlineFrames ==
    {[time_key |-> [i \in 1..n |-> i], close |-> [i \in 1..n |-> 380]] :
        n \in 0..MaxRows}
\* subscribe and unsubscribe answer no table
SubResponses == {Err, [ret |-> RET_OK]}

MDReady ==
    /\ CanCall
    /\ \/ md_quote_ctx # NoCtx
       \/ quote_ctx # NoCtx
       \/ Len(contexts) < MaxHandles

\* an operation of the MarketData object that acquires the context and
\* forwards one request, answered by resp; out is its outcome given the answer
MDForward(name, args, fn, kwargs, connected, resp, out) ==
    /\ MDReady
    /\ LET c == MarketData_get_quote_ctx_eff(connected)
           op == IF Raised(c.out)
                 THEN Op(name, "md", args, <<>>, <<>>, c.out)
                 ELSE Op(name, "md", args, <<Call(fn, c.cache, kwargs)>>,
                         <<resp>>, out)
       IN  /\ contexts' = c.contexts
           /\ quote_ctx' = c.quote_ctx
           /\ md_quote_ctx' = c.cache
           /\ last' = op
           /\ scope' = AfterCall(op.out)
    /\ UNCHANGED <<trading_env, UNLOCK_PASSWORD, trade_ctx, managers>>

MarketData_subscribe(codes, sub_types, connected, resp) ==
    MDForward("subscribe", [codes |-> codes, sub_types |-> sub_types],
              "subscribe", subscribe_kwargs(codes, sub_types),
              connected, resp, subscribe_result(codes, resp))

MarketData_unsubscribe(codes, sub_types, connected, resp) ==
    MDForward("unsubscribe", [codes |-> codes, sub_types |-> sub_types],
              "unsubscribe", subscribe_kwargs(codes, sub_types),
              connected, resp, unsubscribe_result(codes, resp))

MarketData_get_quote(codes, connected, resp) ==
    MDForward("get_quote", [codes |-> codes],
              "get_stock_quote", get_quote_kwargs(codes),
              connected, resp, get_quote_result(resp))

MarketData_get_klines(code, period, count, start, end, connected, resp) ==
    MDForward("get_klines",
              [code |-> code, period |-> period, count |-> count,
               start |-> start, end |-> end],
              "request_history_kl",
              get_klines_kwargs(code, period, count, start, end),
              connected, resp, get_klines_result(resp))

MarketData_get_cur_klines(codes, period, num, connected, resp) ==
    MDForward("get_cur_klines",
              [codes |-> codes, period |-> period, num |-> num],
              "get_cur_kline", get_cur_klines_kwargs(codes, period, num),
              connected, resp, get_cur_klines_result(resp))

MarketData_get_subscription(connected, resp) ==
    MDForward("get_subscription", NoArgs, "query_subscription", NoArgs,
              connected, resp, get_subscription_result(resp))

MarketData_get_market_snapshot(codes, connected, resp) ==
    MDForward("get_market_snapshot", [codes |-> codes],
              "get_market_snapshot", get_quote_kwargs(codes),
              connected, resp, get_market_snapshot_result(resp))

MarketData_get_stock_basicinfo(market, stock_type, connected, resp) ==
    MDForward("get_stock_basicinfo",
              [market |-> market, stock_type |-> stock_type],
              "get_stock_basicinfo",
              [market |-> market, stock_type |-> stock_type],
              connected, resp, get_stock_basicinfo_result(resp))

\* ------------------------------------------------------------------ spec
\* the inputs of the operations
Prices == {0, 380}
Quantities == {100}
Sides == {"BUY", "SELL"}
OrderTypes == {"NORMAL", "MARKET"}
Periods == DOMAIN period_map \cup {"FOO", "day"}
CodesArgs == {CodeStr("HK.00700"), CodeList(<<"HK.00700">>),
              CodeList(<<"HK.00700", "US.AAPL">>)}
SubTypesArgs == {SubNone, SubList(<<"QUOTE">>), SubList(<<"K_DAY">>)}
StatusArgs == {StatusNone, FilledStatus, PendingStatus}
OrderResponses == Responses(OrderFrames)
PositionResponses == Responses(PositionFrames)
AccountResponses == Responses(AccountFrames)
QtyResponses == Responses(QtyFrames)
QuoteResponses == Responses(QuoteFrames)
KlineResponses == Responses(KlineFrames)
ModifyResponses == UNION {Responses(ModifyFrames(o)) : o \in OrderIds}
CancelAllResponses == SeqsUpTo(ModifyResponses, MaxRows)

\* The daemon's answers to opening a context (connected) and to
\* unlock_trade (unlock_ret); none is drawn when no context is opened.
QuoteOpens(cached) ==
    IF cached # NoCtx \/ quote_ctx # NoCtx THEN {TRUE} ELSE BOOLEAN
TradeOpens(cached) ==
    IF cached # NoCtx \/ trade_ctx # NoCtx THEN {<<TRUE, RET_OK>>}
    ELSE BOOLEAN \X RetCodes


InitClient ==
    /\ trading_env \in TrdEnvs
    /\ UNLOCK_PASSWORD \in BOOLEAN
    /\ contexts = <<>>
    /\ quote_ctx = NoCtx
    /\ trade_ctx = NoCtx
    /\ md_quote_ctx = NoCtx
    /\ scope = [pc |-> "outside", exc |-> "none"]
    /\ last = Idle

\* Session life cycle: one client, two managers of any markets and the
\* MarketData object, every operation of the client, the "with" block, and
\* of each facade the operations that acquire a context and forward one
\* request.
Init ==
    /\ InitClient
    /\ managers \in {[f \in Managers |->
                         TradingManager_init(mk[f], None, "SIMULATE")] :
                     mk \in [Managers -> Markets]}

Next ==
    \/ \E connected \in QuoteOpens(NoCtx) : FutuClient_get_quote_ctx(connected)
    \/ \E market \in Markets, o \in TradeOpens(NoCtx) :
          FutuClient_get_trade_ctx(market, o[1], o[2])
    \/ FutuClient_close
    \/ FutuClient_enter
    \/ FutuClient_exit
    \/ \E f \in Managers : \E o \in TradeOpens(managers[f].trade_ctx) :
          TradingManager_get_trade_ctx(f, o[1], o[2])
    \/ \E f \in Managers : \E o \in TradeOpens(managers[f].trade_ctx),
          resp \in {Err, Ok([code |-> <<>>, qty |-> <<>>])} :
          TradingManager_get_positions(f, None, o[1], o[2], resp)
    \/ \E connected \in QuoteOpens(md_quote_ctx),
          resp \in {Err, Ok([code |-> <<>>])} :
          MarketData_get_subscription(connected, resp)
    \/ Caller_continue

Spec == Init /\ [][Next]_vars

\* Facade operations: one manager of any account and environment and the
\* MarketData object, every operation with every input and every answer of
\* the daemon.
OpsInit ==
    /\ InitClient
    /\ managers \in {[f \in Managers |->
                         IF f = "tm1" THEN TradingManager_init("HK", a, e)
                         ELSE TradingManager_init("HK", None, "SIMULATE")] :
                     a \in AccIds, e \in TrdEnvs}

OpsNext ==
    \/ \E o \in TradeOpens(managers["tm1"].trade_ctx) :
          TradingManager_get_trade_ctx("tm1", o[1], o[2])
    \/ \E o \in TradeOpens(managers["tm1"].trade_ctx),
          code \in {"HK.00700"}, price \in Prices, quantity \in Quantities,
          side \in Sides, order_type \in OrderTypes, resp \in OrderResponses :
          TradingManager_place_order("tm1", code, price, quantity, side,
                                     order_type, o[1], o[2], resp)
    \/ \E o \in TradeOpens(managers["tm1"].trade_ctx),
          code \in Codes \cup {None}, resp \in PositionResponses :
          TradingManager_get_positions("tm1", code, o[1], o[2], resp)
    \/ \E o \in TradeOpens(managers["tm1"].trade_ctx),
          code \in Codes, resp \in PositionResponses :
          TradingManager_get_position("tm1", code, o[1], o[2], resp)
    \/ \E o \in TradeOpens(managers["tm1"].trade_ctx),
          status \in StatusArgs, resp \in OrderResponses :
          TradingManager_get_today_orders("tm1", status, o[1], o[2], resp)
    \/ \E o \in TradeOpens(managers["tm1"].trade_ctx),
          resp \in OrderResponses :
          TradingManager_get_filled_orders("tm1", o[1], o[2], resp)
    \/ \E o \in TradeOpens(managers["tm1"].trade_ctx),
          resp \in OrderResponses :
          TradingManager_get_pending_orders("tm1", o[1], o[2], resp)
    \/ \E o \in TradeOpens(managers["tm1"].trade_ctx),
          order_id \in OrderIds, resp \in ModifyResponses :
          TradingManager_cancel_order("tm1", order_id, o[1], o[2], resp)
    \/ \E o \in TradeOpens(managers["tm1"].trade_ctx),
          resp \in OrderResponses, resps \in CancelAllResponses :
          TradingManager_cancel_all_orders("tm1", o[1], o[2], resp, resps)
    \/ \E o \in TradeOpens(managers["tm1"].trade_ctx),
          account_type \in TrdEnvs, resp \in AccountResponses :
          TradingManager_get_account_info("tm1", account_type, o[1], o[2],
                                          resp)
    \/ \E o \in TradeOpens(managers["tm1"].trade_ctx),
          code \in {"HK.00700"}, price \in Prices, resp \in QtyResponses :
          TradingManager_get_max_trd_qtys("tm1", code, price, o[1], o[2], resp)
    \/ \E connected \in QuoteOpens(md_quote_ctx), codes \in CodesArgs,
          sub_types \in SubTypesArgs, resp \in SubResponses :
          MarketData_subscribe(codes, sub_types, connected, resp)
    \/ \E connected \in QuoteOpens(md_quote_ctx), codes \in CodesArgs,
          sub_types \in SubTypesArgs, resp \in SubResponses :
          MarketData_unsubscribe(codes, sub_types, connected, resp)
    \/ \E connected \in QuoteOpens(md_quote_ctx), codes \in CodesArgs,
          resp \in QuoteResponses :
          MarketData_get_quote(codes, connected, resp)
    \/ \E connected \in QuoteOpens(md_quote_ctx), period \in Periods,
          resp \in KlineResponses :
          MarketData_get_klines("HK.00700", period, 30, None, None,
                                connected, resp)
    \/ \E connected \in QuoteOpens(md_quote_ctx), codes \in CodesArgs,
          period \in Periods, resp \in KlineResponses :
          MarketData_get_cur_klines(codes, period, 30, connected, resp)
    \/ \E connected \in QuoteOpens(md_quote_ctx), resp \in QuoteResponses :
          MarketData_get_subscription(connected, resp)
    \/ \E connected \in QuoteOpens(md_quote_ctx), codes \in CodesArgs,
          resp \in QuoteResponses :
          MarketData_get_market_snapshot(codes, connected, resp)
    \/ \E connected \in QuoteOpens(md_quote_ctx), market \in Markets,
          resp \in QuoteResponses :
          MarketData_get_stock_basicinfo(market, "STOCK", connected, resp)
    \/ Caller_continue

OpsSpec == OpsInit /\ [][OpsNext]_vars

\* ---------------------------------------------------------------- claims
Ctxs == 1..Len(contexts)
\* the contexts of a kind, and those of them not yet closed
Opened(kind) == {h \in Ctxs : contexts[h].kind = kind}
Open(kind) == {h \in Opened(kind) : contexts[h].closes = 0}
NeedsUnlock == UNLOCK_PASSWORD /\ trading_env = "REAL"

\* C1: whenever the client holds a trade context it is usable; with the
\* environment REAL and an unlock password configured, the context the
\* client keeps (and returns from get_trade_ctx) has been unlocked.
C1_HandleUsable ==
    /\ trade_ctx # NoCtx /\ NeedsUnlock => contexts[trade_ctx].unlocked
    /\ last.op \in {"get_trade_ctx", "tm_get_trade_ctx"} /\ Returned(last.out)
       /\ NeedsUnlock
          => contexts[last.out.ctx].unlocked

\* C2: close() closes each context the client holds exactly once, closes
\* no other, leaves both attributes None and raises nothing; a close()
\* that finds both None (a second close()) issues no close at all, and no
\* context is ever closed twice.
C2_CloseStep ==
    last.op = "idle" /\ last'.op = "close" =>
        LET held == {quote_ctx, trade_ctx} \ {NoCtx}
        IN  /\ quote_ctx' = NoCtx /\ trade_ctx' = NoCtx
            /\ Returned(last'.out)
            /\ Len(contexts') = Len(contexts)
            /\ \A h \in Ctxs :
                  contexts'[h].closes =
                      contexts[h].closes + (IF h \in held THEN 1 ELSE 0)
            /\ {last'.calls[i].ctx : i \in DOMAIN last'.calls} = held
            /\ Len(last'.calls) = Cardinality(held)
            /\ \A h \in Ctxs : contexts'[h].closes <= 1

C2_CloseIdempotent == [][C2_CloseStep]_vars

\* C2 witness: a close() that found nothing to close, after the contexts
\* opened before were closed
C2_Witness ==
    /\ last.op = "close" /\ last.calls = <<>>
    /\ Len(contexts) = 2
    /\ \A h \in Ctxs : contexts[h].closes = 1

\* C3 as stated: over the life of one client at most one quote context and
\* at most one trade context is ever opened.
C3_CreatedAtMostOnce ==
    /\ Cardinality(Opened("quote")) <= 1
    /\ Cardinality(Opened("trade")) <= 1

\* C3 amended: at any time at most one quote context and at most one trade
\* context is open (opened and not yet closed), and it is the one the
\* client holds: a context is opened only when the one before it was closed.
C3_AtMostOneOpen ==
    /\ Open("quote") = {quote_ctx} \ {NoCtx}
    /\ Open("trade") = {trade_ctx} \ {NoCtx}

\* C3 witness: a quote context opened again after close()
C3_Witness ==
    /\ Cardinality(Opened("quote")) = 2
    /\ quote_ctx = 2
    /\ contexts[1].closes = 1

\* C4: the context get_trade_ctx(m) returns is scoped to market m, and every
\* request of a manager constructed with market m is forwarded on a context
\* scoped to m.
C4_ScopedToMarket ==
    /\ last.op = "get_trade_ctx" /\ Returned(last.out)
          => contexts[last.out.ctx].market = last.args.market
    /\ last.who \in Managers =>
          /\ Returned(last.out) /\ last.op = "tm_get_trade_ctx"
                => contexts[last.out.ctx].market = managers[last.who].market
          /\ \A i \in DOMAIN last.calls :
                contexts[last.calls[i].ctx].market = managers[last.who].market

\* C5: once the "with" block has been left, by normal return or by an
\* exception, close() has run: the client holds no context and every
\* context opened is closed; an exception raised in the block has
\* propagated to the caller and was not suppressed.
C5_ScopeExit ==
    scope.pc = "left" =>
        /\ quote_ctx = NoCtx /\ trade_ctx = NoCtx
        /\ \A h \in Ctxs : contexts[h].closes = 1
        /\ scope.exc \in {"none", "propagated"}
        /\ last.op = "__exit__" => Returned(last.out)

\* C5 witness: the block was left by an exception, with contexts to close
C5_Witness ==
    /\ scope.pc = "left" /\ scope.exc = "propagated"
    /\ last.op = "__exit__"
    /\ Len(contexts) = 2

\* the daemon's answer to the i-th request of the last operation
Answer(i) == last.resps[i]
\* the rows of a table answered by the daemon
Rows(df) == 1..df_len(df)

\* C6: when the pending-order query of cancel_all_orders succeeds with the
\* orders p_1..p_n, the result has n entries, entry i carries the order id
\* of p_i, is "cancelled" if the daemon accepted the cancellation of p_i and
\* "error" otherwise, and a cancellation was requested for every p_i, in
\* order, whatever the answers to the earlier ones.
C6_CancelAll ==
    last.op = "cancel_all_orders" /\ last.resps # <<>> /\ Answer(1).ret = 0 =>
        LET ids == Answer(1).data.order_id
            n == Len(ids)
        IN  /\ Returned(last.out)
            /\ Len(last.out.results) = n
            /\ Len(last.calls) = n + 1
            /\ Len(last.resps) = n + 1
            /\ \A i \in 1..n :
                  /\ last.out.results[i].order_id = ids[i]
                  /\ last.out.results[i].status =
                        (IF Answer(i + 1).ret = 0 THEN "cancelled" ELSE "error")
                  /\ last.calls[i + 1].fn = "modify_order"
                  /\ last.calls[i + 1].kwargs.order_id = ids[i]
                  /\ last.calls[i + 1].kwargs.modify_order_op = 0

\* C6 witness: two pending orders, the first cancellation refused and the
\* second accepted
C6_Witness ==
    /\ last.op = "cancel_all_orders" /\ Len(last.resps) = 3
    /\ Answer(1).ret = 0 /\ Answer(2).ret # 0 /\ Answer(3).ret = 0
    /\ Answer(1).data.order_id = <<"o1", "o2">>
    /\ last.out.results[2].status = "cancelled"

\* C7: an operation other than cancel_all_orders raises whenever the daemon
\* answers its request with a code other than 0, and returns otherwise;
\* cancel_all_orders raises when its pending-order query is refused and
\* otherwise returns, a refused cancellation being an "error" entry.
C7_FailureSurfaced ==
    /\ last.op # "cancel_all_orders" /\ last.resps # <<>> =>
          /\ Len(last.resps) = 1
          /\ Raised(last.out) <=> Answer(1).ret # 0
    /\ last.op = "cancel_all_orders" /\ last.resps # <<>> =>
          /\ Raised(last.out) <=> Answer(1).ret # 0
          /\ Returned(last.out) =>
                \A i \in 1..Len(last.out.results) :
                    Answer(i + 1).ret # 0
                        <=> last.out.results[i].status = "error"

\* C7 witness: a market-data request the daemon refused
C7_Witness ==
    /\ last.op = "get_quote" /\ last.resps # <<>>
    /\ Answer(1).ret # 0 /\ Raised(last.out)

\* C8: place_order with order type MARKET and price 0 forwards price 0 with
\* the given code, quantity, side and order type and the manager's
\* environment, and the account id exactly when the manager has one; once
\* the request is forwarded it fails exactly when the daemon answers a code
\* other than 0, and otherwise returns status "placed" with the order id of
\* the first row, or None when the answer has no rows. Without a request
\* forwarded it fails only because no trade context could be acquired.
C8_MarketOrder ==
    last.op = "place_order" /\ last.args.order_type = "MARKET"
    /\ last.args.price = 0 =>
        IF last.calls = <<>>
        THEN /\ Raised(last.out)
             /\ last.out.msg \in {"connect", "Failed to unlock trading"}
             /\ managers[last.who].trade_ctx = NoCtx
        ELSE LET k == last.calls[1].kwargs
                 m == managers[last.who]
             IN  /\ last.calls[1].fn = "place_order"
                 /\ k.price = 0
                 /\ k.code = last.args.code
                 /\ k.qty = last.args.quantity
                 /\ k.trd_side = last.args.side
                 /\ k.order_type = "MARKET"
                 /\ k.trd_env = m.trd_env
                 /\ "acc_id" \in DOMAIN k <=> m.acc_id # None
                 /\ "acc_id" \in DOMAIN k => k.acc_id = m.acc_id
                 /\ Raised(last.out) <=> Answer(1).ret # 0
                 /\ Returned(last.out) =>
                       /\ last.out.result.status = "placed"
                       /\ last.out.result.order_id =
                             (IF df_len(Answer(1).data) > 0
                              THEN Answer(1).data.order_id[1] ELSE None)

\* C8 witness: a market sell order at price 0 the daemon accepted, from a
\* manager with an account id
C8_Witness ==
    /\ last.op = "place_order" /\ last.calls # <<>>
    /\ last.args.order_type = "MARKET" /\ last.args.price = 0
    /\ last.args.side = "SELL"
    /\ managers[last.who].acc_id # None
    /\ Returned(last.out) /\ last.out.result.order_id = "o2"

\* C9: get_position(code) forwards the request of get_positions(code) and,
\* on the daemon's answer, returns the first element of what get_positions
\* returns when that is not empty, None when it is empty, and fails exactly
\* when get_positions fails.
C9_GetPosition ==
    last.op = "get_position" /\ last.calls # <<>> =>
        LET positions == get_positions_result(Answer(1))
        IN  /\ last.calls[1].fn = "position_list_query"
            /\ last.calls[1].kwargs
                  = get_positions_kwargs(last.who, last.args.code)
            /\ Raised(last.out) <=> Raised(positions)
            /\ Raised(positions) => last.out = positions
            /\ Returned(positions) /\ Len(positions.records) > 0
                  => last.out = RetRecord(positions.records[1])
            /\ Returned(positions) /\ Len(positions.records) = 0
                  => last.out = RetNone

\* C9 witness: two positions answered, the first one returned
C9_Witness ==
    /\ last.op = "get_position" /\ last.resps # <<>>
    /\ Answer(1).ret = 0
    /\ Answer(1).data.code = <<"US.AAPL", "HK.00700">>
    /\ Returned(last.out) /\ last.out.record.code = "US.AAPL"

\* the operations that return the daemon's table as a list of records
RecordsOps ==
    {"get_positions", "get_today_orders", "get_filled_orders",
     "get_pending_orders", "get_quote", "get_klines", "get_cur_klines",
     "get_subscription", "get_market_snapshot", "get_stock_basicinfo"}

\* records is the table df, one mapping per row in row order, each with the
\* columns of df
IsTable(records, df) ==
    /\ Len(records) = df_len(df)
    /\ \A i \in Rows(df) :
          /\ DOMAIN records[i] = DOMAIN df
          /\ \A c \in DOMAIN df : records[i][c] = df[c][i]

\* C10 as stated: every operation whose request the daemon answers with a
\* table of N rows (get_max_trd_qtys among them) returns N mappings in row
\* order, each with the columns of the table, and an empty list for an
\* empty table.
C10_EveryCallRoundTrips ==
    last.op \in RecordsOps \cup {"get_max_trd_qtys"}
    /\ last.resps # <<>> /\ Answer(1).ret = 0 =>
        /\ Returned(last.out)
        /\ "records" \in DOMAIN last.out
        /\ IsTable(last.out.records, Answer(1).data)

\* C10 amended: the operations that return a list of records return, for a
\* table of N rows, N mappings in row order, each with the columns of the
\* table, and an empty list for an empty table, as do place_order and
\* cancel_order in the data field of their result; get_max_trd_qtys returns
\* the mapping of the first row alone, or an empty mapping for an empty
\* table. None of them fails.
C10_RecordsRoundTrip ==
    last.resps # <<>> /\ Answer(1).ret = 0 =>
        /\ last.op \in RecordsOps =>
              /\ Returned(last.out)
              /\ IsTable(last.out.records, Answer(1).data)
        /\ last.op \in {"place_order", "cancel_order"} =>
              /\ Returned(last.out)
              /\ IsTable(last.out.result.data, Answer(1).data)
        /\ last.op = "get_max_trd_qtys" =>
              /\ Returned(last.out)
              /\ IF df_len(Answer(1).data) = 0
                 THEN DOMAIN last.out.record = {}
                 ELSE /\ DOMAIN last.out.record = DOMAIN Answer(1).data
                      /\ \A c \in DOMAIN Answer(1).data :
                            last.out.record[c] = Answer(1).data[c][1]

\* C10 witness: a table of two different rows returned as two mappings
C10_Witness ==
    /\ last.op = "get_quote" /\ last.resps # <<>> /\ Answer(1).ret = 0
    /\ Answer(1).data.code = <<"US.AAPL", "HK.00700">>
    /\ Len(last.out.records) = 2

\* the operations that take one code or a list of codes
SymbolOps == {"subscribe", "unsubscribe", "get_quote", "get_cur_klines",
              "get_market_snapshot"}

\* the request operation op forwards when called with arguments a
SymbolOpKwargs(op, a) ==
    CASE op \in {"subscribe", "unsubscribe"} ->
             subscribe_kwargs(a.codes, a.sub_types)
      [] op \in {"get_quote", "get_market_snapshot"} ->
             get_quote_kwargs(a.codes)
      [] op = "get_cur_klines" ->
             get_cur_klines_kwargs(a.codes, a.period, a.num)

\* the outcome of operation op called with codes, given the daemon's answer
SymbolOpOut(op, codes, resp) ==
    CASE op = "subscribe" -> subscribe_result(codes, resp)
      [] op = "unsubscribe" -> unsubscribe_result(codes, resp)
      [] op = "get_quote" -> get_quote_result(resp)
      [] op = "get_cur_klines" -> get_cur_klines_result(resp)
      [] op = "get_market_snapshot" -> get_market_snapshot_result(resp)

\* the arguments a with the bare code replaced by the list of that one code
WithOneElementList(a) == [a EXCEPT !.codes = CodeList(<<a.codes.str>>)]

\* C11: subscribe, unsubscribe, get_quote, get_cur_klines and
\* get_market_snapshot called with a bare code s forward the request, and
\* have the outcome (result or failure), that the same call with the list
\* [s] has under the same answer of the daemon; when the context cannot be
\* acquired nothing is forwarded and the call raises either way.
C11_BareSymbolAsList ==
    (last.op \in SymbolOps /\ "str" \in DOMAIN last.args.codes) =>
        LET a == WithOneElementList(last.args)
        IN  IF last.calls = <<>>
            THEN Raised(last.out) /\ last.out.msg = "connect"
            ELSE /\ Len(last.calls) = 1
                 /\ last.calls[1].kwargs = SymbolOpKwargs(last.op, a)
                 /\ last.calls[1].kwargs.codes = <<last.args.codes.str>>
                 /\ last.out = SymbolOpOut(last.op, a.codes, Answer(1))

\* subscribe with a bare code was accepted: the result names the list of
\* that code
C11_Witness ==
    /\ last.op = "subscribe" /\ last.args.codes = CodeStr("HK.00700")
    /\ last.resps # <<>> /\ Answer(1).ret = 0
    /\ last.out.result.codes = <<"HK.00700">>
    /\ last.calls[1].kwargs.codes = <<"HK.00700">>

\* the operations that take a period
CandleOps == {"get_klines", "get_cur_klines"}

\* the request a candle operation forwards when called with arguments a
CandleOpKwargs(op, a) ==
    IF op = "get_klines"
    THEN get_klines_kwargs(a.code, a.period, a.count, a.start, a.end)
    ELSE get_cur_klines_kwargs(a.codes, a.period, a.num)

CandleOpOut(op, resp) ==
    IF op = "get_klines" THEN get_klines_result(resp)
    ELSE get_cur_klines_result(resp)

\* C12: get_klines and get_cur_klines forward, for each of the nine
\* recognized period names, a candle period no other recognized name maps
\* to; for any other period they do not fail on the period but forward the
\* request, and have the outcome, of the same call with period "DAY".
C12_PeriodMapping ==
    /\ Cardinality(DOMAIN period_map) = 9
    /\ (last.op \in CandleOps /\ last.calls # <<>>) =>
          LET p == last.args.period
              ktype == last.calls[1].kwargs.ktype
          IN  IF p \in DOMAIN period_map
              THEN /\ ktype = period_map[p]
                   /\ \A q \in DOMAIN period_map \ {p} : period_map[q] # ktype
              ELSE /\ ktype = "K_DAY"
                   /\ period_map["DAY"] = "K_DAY"
                   /\ last.calls[1].kwargs =
                          CandleOpKwargs(last.op, [last.args EXCEPT !.period = "DAY"])
                   /\ last.out = CandleOpOut(last.op, Answer(1))
                   /\ Raised(last.out) <=> Answer(1).ret # 0

\* get_cur_klines with an unrecognized period was answered with candles
C12_Witness ==
    /\ last.op = "get_cur_klines" /\ last.args.period = "FOO"
    /\ last.calls # <<>> /\ last.calls[1].kwargs.ktype = "K_DAY"
    /\ Answer(1).ret = 0 /\ Len(last.out.records) = MaxRows

\* the objects that borrow a context of the client
Facades == Managers \cup {"md"}

\* C13: a context a TradingManager or the MarketData object has cached is
\* the one the client holds now, and no request of theirs is forwarded on a
\* context that close() has closed.
C13_CachedIsCurrent ==
    /\ \A f \in Managers :
          managers[f].trade_ctx # NoCtx => managers[f].trade_ctx = trade_ctx
    /\ md_quote_ctx # NoCtx => md_quote_ctx = quote_ctx
    /\ last.who \in Facades =>
          \A i \in DOMAIN last.calls : contexts[last.calls[i].ctx].closes = 0

\* a request of a facade went out on a context closed before
C13_ForwardedOnClosed ==
    /\ last.who \in Facades
    /\ \E i \in DOMAIN last.calls : contexts[last.calls[i].ctx].closes > 0

\* the requests of the last operation that carry a trd_env
EnvCalls == {i \in DOMAIN last.calls : "trd_env" \in DOMAIN last.calls[i].kwargs}

\* C14: the trd_env of every request a TradingManager forwards is the
\* environment the client opened the context of the request for, and a
\* context of the environment REAL that had to be unlocked has been; so no
\* request with trd_env REAL goes out on a context opened for SIMULATE.
C14_RequestEnvMatchesHandle ==
    last.who \in Managers =>
        \A i \in EnvCalls :
            LET c == contexts[last.calls[i].ctx]
            IN  /\ last.calls[i].kwargs.trd_env = c.env
                /\ c.env = "REAL" /\ UNLOCK_PASSWORD => c.unlocked

\* an order with trd_env REAL was placed on a context opened for SIMULATE
\* and never unlocked
C14_RealOnSimulate ==
    /\ last.op = "place_order" /\ last.calls # <<>>
    /\ last.calls[1].kwargs.trd_env = "REAL"
    /\ contexts[last.calls[1].ctx].env = "SIMULATE"
    /\ ~contexts[last.calls[1].ctx].unlocked
====
